---- MODULE Spec2Model ----
(***************************************************************************)
(* Model of the client-side connection manager                             *)
(* frontend/src/services/WebSocketService.ts (class WebSocketService).     *)
(*                                                                         *)
(* Execution is single threaded: every public call, socket callback and    *)
(* timer callback is one task of the event loop and therefore one action.  *)
(* The continuation of an `await` is a microtask; it runs when the stack   *)
(* of the settling callback empties, so it is part of the settling action. *)
(*                                                                         *)
(* The `new Promise` and the `new WebSocket` of one call of connect() share *)
(* one number, the attempt. Objects nothing refers to any more (a socket   *)
(* whose close event has been delivered, a settled promise that is neither *)
(* stored nor awaited) are dropped and their number is used again, so the  *)
(* model bounds the attempts alive at one time, not the attempts ever made.*)
(*                                                                         *)
(* Spec is the connection and the sends, with no subscriber registered.    *)
(* RouterSpec adds inbound frames and subscribers (on/off) to the          *)
(* connection's life; FaultyRouterSpec also has callbacks that throw.      *)
(* SceneSpec is a GameScene and other subscribers on a connection that    *)
(* opens and stays.                                                        *)
(* LifecycleSpec has subscribers of the events the service itself emits   *)
(* and frames that carry the names of those events. ReentrantSpec has      *)
(* subscribers that call connect() or sendCommand() from within the emit.  *)
(* BootSpec is the game from BootScene.create(), with timers that fire and *)
(* sockets that settle.                                                    *)
(* UnattendedSpec is the connection with sendCommand called only while the *)
(* service is retrying on its own.                                         *)
(***************************************************************************)
EXTENDS Integers, Sequences, FiniteSets, TLC

\* ---- bounds of the model ------------------------------------------------
MaxLive    == 2       \* attempts (promise + socket) alive at the same time
MaxWaiters == 2       \* sendCommand calls suspended at the same time
MaxSubs    == 2       \* registrations the emitter holds at the same time

\* ---- program constants --------------------------------------------------
maxReconnectAttempts == 5
reconnectDelay       == 3000     \* ms
delayCap             == 30000    \* ms, the second argument of Math.min
backoffBase          == [num |-> 3, den |-> 2]   \* 1.5
NORMAL_CLOSURE       == 1000

\* Close codes the transport can report: normal closure (1000), going away
\* (1001) and abnormal closure (1006, the code of a failed connection).
CloseCodes == {1000, 1001, 1006}

Attempts == 1 .. MaxLive
NULL     == 0

VARIABLES
    ws,                        \* this.ws: NULL or the attempt whose socket is held
    sockets,                   \* the WebSocket objects created so far
    promises,                  \* the promises created by connect()
    handled,                   \* the promises that have a rejection handler
    connectionPromise,         \* this.connectionPromise: NULL or an attempt
    resolveConnectionPromise,  \* NULL or the attempt whose resolve() is stored
    rejectConnectionPromise,   \* NULL or the attempt whose reject() is stored
    reconnectAttempts,         \* this.reconnectAttempts
    reconnectTimeoutId,        \* this.reconnectTimeoutId: NULL or a timer id
    timers,                    \* timers armed with setTimeout and not yet fired/cleared
    waiters,                   \* sendCommand calls suspended at `await`, in call order
    sent,                      \* frames written with ws.send by the last task, in order
    emits,                     \* events emitted by the last task, in order
    armed,                     \* delays passed to setTimeout by the last task, in order
    subs,                      \* the emitter's registrations, in registration order
    calls,                     \* subscriber callbacks invoked by the last task, in order
    returned,                  \* sendCommand calls that completed in the last task, in order
    step,                      \* the last task that ran
    removed,                   \* registrations taken back with off() and not made again
    released,                  \* sockets disconnect() closed, their close event still to come
    scene,                     \* the Phaser scene shown: "none" before BootScene.create()
    bootPromise,               \* NULL or the promise BootScene's then/catch waits for
    stopped,                   \* disconnect() was called and connect() not since
    retryOnly                  \* so far: one connect(), then only timers and failed attempts

vars == << ws, sockets, promises, handled, connectionPromise, resolveConnectionPromise,
           rejectConnectionPromise, reconnectAttempts, reconnectTimeoutId,
           timers, waiters, sent, emits, armed, subs, calls, returned, step, removed, released,
           scene, bootPromise, stopped,
           retryOnly >>

\* The whole state as one record, so that the handlers compose as functions.
Cur ==
    [ ws |-> ws, sockets |-> sockets, promises |-> promises, handled |-> handled,
      connectionPromise |-> connectionPromise,
      resolveConnectionPromise |-> resolveConnectionPromise,
      rejectConnectionPromise |-> rejectConnectionPromise,
      reconnectAttempts |-> reconnectAttempts,
      reconnectTimeoutId |-> reconnectTimeoutId,
      timers |-> timers, waiters |-> waiters,
      sent |-> << >>, emits |-> << >>, armed |-> << >>, returned |-> << >>,
      subs |-> subs, calls |-> << >>, thrown |-> FALSE,
      writeFails |-> {}, overflow |-> FALSE, removed |-> removed,
      released |-> released, scene |-> scene, bootPromise |-> bootPromise,
      stopped |-> stopped ]

NoSocket == [readyState |-> "NONE", opened |-> FALSE, by |-> "none"]

\* A promise is still referred to: stored in a field or awaited.
referenced(s, p) ==
    \/ p \in {s.connectionPromise, s.resolveConnectionPromise,
              s.rejectConnectionPromise}
    \/ \E i \in 1 .. Len(s.waiters) : s.waiters[i].p = p

\* Drop the objects nothing refers to any more.
collected(s) ==
    {a \in Attempts : s.promises[a] \in {"resolved", "rejected"} /\ ~referenced(s, a)}

collect(s) ==
    [s EXCEPT
       !.handled  = @ \ collected(s),
       !.released = {a \in @ : s.sockets[a].readyState # "CLOSED"},
       !.sockets  = [a \in Attempts |->
                        IF s.sockets[a].readyState = "CLOSED" THEN NoSocket
                        ELSE s.sockets[a]],
       !.promises = [a \in Attempts |->
                        IF s.promises[a] \in {"resolved", "rejected"}
                           /\ ~referenced(s, a)
                        THEN "none" ELSE s.promises[a]]]

\* ---- BootScene: connect().then(...).catch(...) ---------------------------
\* The reactions BootScene attached to the promise connect() returned: when it
\* is resolved the GameScene is started, when it is rejected the failure is
\* shown and the BootScene stays. They run once, in the task that settles the
\* promise.
bootReaction(s) ==
    IF s.bootPromise = NULL \/ s.promises[s.bootPromise] = "pending" THEN s
    ELSE [s EXCEPT !.scene = IF s.promises[s.bootPromise] = "resolved"
                             THEN "GameScene" ELSE @,
                   !.bootPromise = NULL]

Becomes(r, label) ==
  \E s \in {collect(bootReaction(r))} :
    /\ ~s.overflow
    /\ scene' = s.scene
    /\ bootPromise' = s.bootPromise
    /\ ws' = s.ws
    /\ sockets' = s.sockets
    /\ promises' = s.promises
    /\ handled' = s.handled
    /\ connectionPromise' = s.connectionPromise
    /\ resolveConnectionPromise' = s.resolveConnectionPromise
    /\ rejectConnectionPromise' = s.rejectConnectionPromise
    /\ reconnectAttempts' = s.reconnectAttempts
    /\ reconnectTimeoutId' = s.reconnectTimeoutId
    /\ timers' = s.timers
    /\ waiters' = s.waiters
    /\ sent' = s.sent
    /\ emits' = s.emits
    /\ armed' = s.armed
    /\ subs' = s.subs
    /\ calls' = s.calls
    /\ returned' = s.returned
    /\ removed' = s.removed
    /\ released' = s.released
    /\ stopped' = s.stopped
    /\ step' = label
    /\ retryOnly' = ( /\ retryOnly
                      /\ \/ label.op = "connect" /\ step.op = "init"
                         \/ label.op = "timer"
                         \/ label.op = "close" /\ ~sockets[label.sock].opened )

\* data: the text of the frame, for a message event.
Label(op, a, code) == [op |-> op, sock |-> a, code |-> code, data |-> ""]

Init ==
    /\ ws = NULL
    /\ sockets = [a \in Attempts |-> NoSocket]
    /\ promises = [a \in Attempts |-> "none"]
    /\ handled = {}
    /\ connectionPromise = NULL
    /\ resolveConnectionPromise = NULL
    /\ rejectConnectionPromise = NULL
    /\ reconnectAttempts = 0
    /\ reconnectTimeoutId = NULL
    /\ timers = {}
    /\ waiters = << >>
    /\ sent = << >>
    /\ emits = << >>
    /\ armed = << >>
    /\ subs = << >>
    /\ calls = << >>
    /\ returned = << >>
    /\ step = Label("init", NULL, 0)
    /\ removed = {}
    /\ released = {}
    /\ scene = "none"
    /\ bootPromise = NULL
    /\ retryOnly = TRUE
    /\ stopped = FALSE

\* ---- Phaser.Events.EventEmitter -----------------------------------------
\* The callbacks a subscriber may register; the Faulty ones throw when called.
Callbacks == {"handler", "other", "thrower"}
Faulty == {"thrower"}

\* The callbacks of a GameScene, each registered with the scene as context.
SceneHandlers ==
    [description  |-> "handleDescription", error |-> "handleError",
     dialogue     |-> "handleDialogue",    scene_change |-> "handleSceneChange"]

SceneTypes == DOMAIN SceneHandlers

\* A callback stands for the pair (fn, context) a subscriber passes: the
\* same pair is passed to on and to off.
\* on(type, fn): the registration is appended (registering fn twice has it
\* called twice).
on(s, type, fn) ==
    [s EXCEPT !.subs = Append(@, [type |-> type, fn |-> fn]),
              !.removed = @ \ {[type |-> type, fn |-> fn]}]

\* off that takes back one registration only, the oldest.
off_oldestOnly(s, type, fn) ==
    LET hits == {i \in 1 .. Len(s.subs) : s.subs[i] = [type |-> type, fn |-> fn]}
        first == CHOOSE i \in hits : \A j \in hits : i <= j
    IN  IF hits = {} THEN s
        ELSE [s EXCEPT
                !.subs = [i \in 1 .. Len(@) - 1 |-> IF i < first THEN @[i] ELSE @[i + 1]],
                !.removed = @ \cup {[type |-> type, fn |-> fn]}]

\* off(type, fn): every registration of fn for the type is removed; none to
\* remove is no error.
off(s, type, fn) ==
    [s EXCEPT !.subs = SelectSeq(@, LAMBDA r : ~(r.type = type /\ r.fn = fn)),
              !.removed = IF \E i \in 1 .. Len(s.subs) :
                                 s.subs[i] = [type |-> type, fn |-> fn]
                          THEN @ \cup {[type |-> type, fn |-> fn]} ELSE @]

\* emit(type, msg): the listeners of the type are called in registration
\* order, in the caller's stack: an exception thrown by a listener leaves
\* emit at once (s.thrown) and the listeners after it are not called.
\* A listener may call back into the service before it returns (invoke).
RECURSIVE invoke(_, _)
RECURSIVE deliver(_, _, _, _)
deliver(s, type, msg, i) ==
    IF i > Len(s.subs) \/ s.thrown THEN s
    ELSE IF s.subs[i].type # type THEN deliver(s, type, msg, i + 1)
    ELSE deliver(invoke([s EXCEPT !.calls = Append(@, [fn |-> s.subs[i].fn,
                                                       type |-> type, arg |-> msg]),
                                  !.thrown = s.subs[i].fn \in Faulty],
                        s.subs[i].fn),
                 type, msg, i + 1)

emit(s, type, msg) ==
    IF s.subs = << >>
    THEN [s EXCEPT !.emits = Append(@, [type |-> type, msg |-> msg])]
    ELSE deliver([s EXCEPT !.emits = Append(@, [type |-> type, msg |-> msg])],
                 type, msg, 1)

\* ---- JSON.parse(event.data) ----------------------------------------------
\* The frames a server may send: text that is no JSON, the JSON value null,
\* and objects {type, payload}.
FrameTypes == {"message", "description"}

InboundFrames ==
    {"not json", "null",
     "{\"type\":\"message\",\"payload\":\"look\"}",
     "{\"type\":\"description\",\"payload\":\"look\"}"}

\* The frames of the other types a GameScene listens to.
SceneFrames ==
    {"{\"type\":\"error\",\"payload\":\"look\"}",
     "{\"type\":\"dialogue\",\"payload\":\"look\"}",
     "{\"type\":\"scene_change\",\"payload\":\"look\"}"}

\* The lifecycle events the service itself emits, and frames that carry
\* their names in the type field.
LifecycleTypes == {"connected", "disconnected"}

LifecycleFrames ==
    {"{\"type\":\"connected\",\"payload\":\"look\"}",
     "{\"type\":\"disconnected\",\"payload\":\"look\"}"}

\* ok: the text parses; object: the value has properties (null has none, so
\* reading message.type throws).
JSONparse(text) ==
    CASE text = "null" ->
           [ok |-> TRUE, object |-> FALSE, type |-> "", payload |-> ""]
      [] text = "{\"type\":\"message\",\"payload\":\"look\"}" ->
           [ok |-> TRUE, object |-> TRUE, type |-> "message", payload |-> "look"]
      [] text = "{\"type\":\"description\",\"payload\":\"look\"}" ->
           [ok |-> TRUE, object |-> TRUE, type |-> "description", payload |-> "look"]
      [] text = "{\"type\":\"error\",\"payload\":\"look\"}" ->
           [ok |-> TRUE, object |-> TRUE, type |-> "error", payload |-> "look"]
      [] text = "{\"type\":\"dialogue\",\"payload\":\"look\"}" ->
           [ok |-> TRUE, object |-> TRUE, type |-> "dialogue", payload |-> "look"]
      [] text = "{\"type\":\"scene_change\",\"payload\":\"look\"}" ->
           [ok |-> TRUE, object |-> TRUE, type |-> "scene_change", payload |-> "look"]
      [] text = "{\"type\":\"connected\",\"payload\":\"look\"}" ->
           [ok |-> TRUE, object |-> TRUE, type |-> "connected", payload |-> "look"]
      [] text = "{\"type\":\"disconnected\",\"payload\":\"look\"}" ->
           [ok |-> TRUE, object |-> TRUE, type |-> "disconnected", payload |-> "look"]
      [] OTHER ->
           [ok |-> FALSE, object |-> FALSE, type |-> "", payload |-> ""]

\* onmessage whose catch reports the failure with an 'error' event.
onmessage_reportsFailure(s, text) ==
    LET message == JSONparse(text)
    IN  IF ~message.ok THEN emit(s, "error", "Failed to parse message")
        ELSE LET s1 == emit(s, "message", text)
             IN  IF s1.thrown \/ ~message.object
                 THEN [s1 EXCEPT !.thrown = FALSE]
                 ELSE [emit(s1, message.type, message.payload) EXCEPT !.thrown = FALSE]

\* onmessage with the whole frame passed to the typed event.
onmessage_wholeFrame(s, text) ==
    LET message == JSONparse(text)
    IN  IF ~message.ok THEN s
        ELSE LET s1 == emit(s, "message", text)
             IN  IF s1.thrown \/ ~message.object
                 THEN [s1 EXCEPT !.thrown = FALSE]
                 ELSE [emit(s1, message.type, text) EXCEPT !.thrown = FALSE]

\* ---- ws.onmessage --------------------------------------------------------
\* The parsed message is logged by its text. Whatever is thrown inside the
\* try (by JSON.parse, by a listener inside emit, by reading a property of
\* null) ends the handler in the catch of line 88.
onmessage(s, text) ==
    LET message == JSONparse(text)
    IN  IF ~message.ok THEN s
        ELSE LET s1 == emit(s, "message", text)
             IN  IF s1.thrown \/ ~message.object
                 THEN [s1 EXCEPT !.thrown = FALSE]
                 ELSE [emit(s1, message.type, message.payload) EXCEPT !.thrown = FALSE]

\* ---- isConnected() ------------------------------------------------------
isConnected(s) == s.ws # NULL /\ s.sockets[s.ws].readyState = "OPEN"

\* ---- the stored resolve / reject functions of a promise -----------------
\* Settling a promise that is already settled does nothing.
resolvePromise(s, p) ==
    IF s.promises[p] = "pending" THEN [s EXCEPT !.promises[p] = "resolved"] ELSE s

rejectPromise(s, p) ==
    IF s.promises[p] = "pending" THEN [s EXCEPT !.promises[p] = "rejected"] ELSE s

\* ---- promise.then / promise.catch / await promise -----------------------
\* The caller attaches its handlers to promise p (nothing to attach to when
\* there is no promise).
attach(s, p) == IF p = NULL THEN s ELSE [s EXCEPT !.handled = @ \cup {p}]

MaxOf(S) == IF S = {} THEN 0 ELSE CHOOSE x \in S : \A y \in S : y <= x

\* ---- return / throw of the async function sendCommand -------------------
\* how: "sent" the command was written, "reported" an 'error' event was
\* emitted and the call returned, "rejected" an exception left the function.
finish(s, cmd, how) == [s EXCEPT !.returned = Append(@, [cmd |-> cmd, how |-> how])]

\* The tail without the isConnected() test of line 167.
sendTail_unchecked(s, cmd) ==
    finish([s EXCEPT !.sent = Append(@, [sock |-> s.ws, cmd |-> cmd])], cmd, "sent")

\* The tail without the try/catch of lines 169-175.
sendTail_noCatch(s, cmd) ==
    IF isConnected(s)
    THEN IF cmd \in s.writeFails
         THEN finish(s, cmd, "rejected")
         ELSE finish([s EXCEPT !.sent = Append(@, [sock |-> s.ws, cmd |-> cmd])],
                     cmd, "sent")
    ELSE finish(emit(s, "error", "Cannot send command, WebSocket is not connected."),
                cmd, "reported")

\* ---- sendCommand, after the wait (lines 167-180) ------------------------
\* s.writeFails: the commands for which JSON.stringify or ws.send throws
\* (a payload that cannot be serialised); the catch of line 172 reports it.
sendTail(s, cmd) ==
    IF isConnected(s)
    THEN IF cmd \in s.writeFails
         THEN finish(emit(s, "error", "Failed to send command via WebSocket."),
                     cmd, "reported")
         ELSE finish([s EXCEPT !.sent = Append(@, [sock |-> s.ws, cmd |-> cmd])],
                     cmd, "sent")
    ELSE finish(emit(s, "error", "Cannot send command, WebSocket is not connected."),
                cmd, "reported")

\* The continuation without the catch of lines 161-165.
afterAwait_ignoresFailure(s, p, cmd) == sendTail(s, cmd)

\* ---- sendCommand, the continuation of `await this.connectionPromise` ----
afterAwait(s, p, cmd) ==
    IF s.promises[p] = "rejected"
    THEN finish(emit(s, "error", "Failed to connect to server to send command."),
                cmd, "reported")
    ELSE sendTail(s, cmd)

\* The continuations run last-registered first.
RECURSIVE resumeAll_lastFirst(_, _)
resumeAll_lastFirst(s, ready) ==
    IF ready = << >> THEN s
    ELSE resumeAll_lastFirst(afterAwait(s, ready[Len(ready)].p, ready[Len(ready)].cmd),
                             SubSeq(ready, 1, Len(ready) - 1))

RECURSIVE resumeAll(_, _)
resumeAll(s, ready) ==
    IF ready = << >> THEN s
    ELSE resumeAll(afterAwait(s, Head(ready).p, Head(ready).cmd), Tail(ready))

\* The microtask checkpoint: every suspended sendCommand whose promise has
\* settled resumes, in the order in which the calls registered.
runMicrotasks(s) ==
    LET settled(w) == s.promises[w.p] # "pending"
        ready == SelectSeq(s.waiters, settled)
        rest  == SelectSeq(s.waiters, LAMBDA w : ~settled(w))
    IN  resumeAll([s EXCEPT !.waiters = rest], ready)

\* ---- the delay of a reconnect timer (line 135) --------------------------
\* Delays are exact fractions of a millisecond, num / den: the powers of 1.5
\* the code computes are exact in double precision, and 3000 * 1.5^4 is
\* 15187.5.
RECURSIVE pow(_, _)
pow(b, e) == IF e = 0 THEN 1 ELSE b * pow(b, e - 1)

\* a <= b and a = b for fractions with positive denominators.
leq(a, b) == a.num * b.den <= b.num * a.den
same(a, b) == a.num * b.den = b.num * a.den

\* The delay with the counter itself as exponent.
backoff_fromCounter(n) ==
    LET raw == [num |-> reconnectDelay * pow(backoffBase.num, n),
                den |-> pow(backoffBase.den, n)]
        cap == [num |-> delayCap, den |-> 1]
    IN  IF leq(raw, cap) THEN raw ELSE cap

\* The delay with a ceiling of 10000 ms.
backoff_lowCeiling(n) ==
    LET raw == [num |-> reconnectDelay * pow(backoffBase.num, n - 1),
                den |-> pow(backoffBase.den, n - 1)]
        cap == [num |-> 10000, den |-> 1]
    IN  IF leq(raw, cap) THEN raw ELSE cap

\* Math.min(this.reconnectDelay * Math.pow(1.5, n - 1), 30000), n being the
\* counter after the increment.
backoff(n) ==
    LET raw == [num |-> reconnectDelay * pow(backoffBase.num, n - 1),
                den |-> pow(backoffBase.den, n - 1)]
        cap == [num |-> delayCap, den |-> 1]
    IN  IF leq(raw, cap) THEN raw ELSE cap

\* scheduleReconnect without the "already scheduled" test of lines 129-131.
scheduleReconnect_rearm(s) ==
    IF s.reconnectAttempts >= maxReconnectAttempts THEN s
    ELSE LET t == MaxOf(s.timers) + 1
         IN  [s EXCEPT !.reconnectAttempts = @ + 1,
                       !.armed = Append(@, backoff(s.reconnectAttempts + 1)),
                       !.reconnectTimeoutId = t,
                       !.timers = @ \cup {t}]

\* scheduleReconnect with `>` for `>=` in the test of line 123.
scheduleReconnect_offByOne(s) ==
    IF s.reconnectAttempts > maxReconnectAttempts THEN s
    ELSE IF s.reconnectTimeoutId # NULL THEN s
    ELSE LET t == MaxOf(s.timers) + 1
         IN  [s EXCEPT !.reconnectAttempts = @ + 1,
                       !.armed = Append(@, backoff(s.reconnectAttempts + 1)),
                       !.reconnectTimeoutId = t,
                       !.timers = @ \cup {t}]

\* scheduleReconnect without `this.reconnectAttempts++` (line 133).
scheduleReconnect_uncounted(s) ==
    IF s.reconnectAttempts >= maxReconnectAttempts THEN s
    ELSE IF s.reconnectTimeoutId # NULL THEN s
    ELSE LET t == MaxOf(s.timers) + 1
         IN  [s EXCEPT !.reconnectTimeoutId = t,
                       !.timers = @ \cup {t}]

\* ---- scheduleReconnect() ------------------------------------------------
scheduleReconnect(s) ==
    IF s.reconnectAttempts >= maxReconnectAttempts THEN s
    ELSE IF s.reconnectTimeoutId # NULL THEN s
    ELSE LET t == MaxOf(s.timers) + 1
         IN  [s EXCEPT !.reconnectAttempts = @ + 1,
                       !.armed = Append(@, backoff(s.reconnectAttempts + 1)),
                       !.reconnectTimeoutId = t,
                       !.timers = @ \cup {t}]

\* ---- if (this.reconnectTimeoutId) { clearTimeout(..); .. = undefined } --
clearReconnectTimeout(s) ==
    IF s.reconnectTimeoutId # NULL
    THEN [s EXCEPT !.timers = @ \ {s.reconnectTimeoutId},
                   !.reconnectTimeoutId = NULL]
    ELSE s

\* ---- if (this.rejectConnectionPromise) { reject; both = null } ----------
rejectPending(s) ==
    IF s.rejectConnectionPromise # NULL
    THEN [rejectPromise(s, s.rejectConnectionPromise)
            EXCEPT !.resolveConnectionPromise = NULL,
                   !.rejectConnectionPromise = NULL]
    ELSE s

\* ---- connect() ----------------------------------------------------------
\* The guard with the CONNECTING test only.
alreadyConnecting_notOpen(s) ==
    s.ws # NULL /\ s.sockets[s.ws].readyState = "CONNECTING"

\* The guard of line 38: a socket is held and is OPEN or CONNECTING.
alreadyConnecting(s) ==
    s.ws # NULL /\ s.sockets[s.ws].readyState \in {"OPEN", "CONNECTING"}

\* The numbers no live object uses, and the one a new attempt gets.
freeAttempts(s) ==
    {a \in Attempts : s.sockets[a] = NoSocket /\ s.promises[a] = "none"}

newAttempt(s) == CHOOSE a \in freeAttempts(s) : \A b \in freeAttempts(s) : a <= b

\* connect() whose catch does not call scheduleReconnect (line 60).
connect_noReschedule(s, by, throws) ==
    LET s0 == IF by = "timer" THEN s ELSE [s EXCEPT !.stopped = FALSE]
        s1 == clearReconnectTimeout(s0)
    IN  IF alreadyConnecting(s1) THEN s1
        ELSE
          LET a  == newAttempt(s1)
              s2 == [s1 EXCEPT !.promises[a] = "pending",
                               !.connectionPromise = a,
                               !.resolveConnectionPromise = a,
                               !.rejectConnectionPromise = a]
          IN  IF ~throws
              THEN [s2 EXCEPT !.sockets[a] = [readyState |-> "CONNECTING",
                                              opened |-> FALSE, by |-> by],
                              !.ws = a]
              ELSE LET s3 == emit(s2, "disconnected", "")
                   IN  IF s3.rejectConnectionPromise # NULL
                       THEN rejectPromise(s3, s3.rejectConnectionPromise)
                       ELSE s3

\* by: who called ("connect" the application, "send" sendCommand, "timer"
\* the reconnect timer); throws: `new WebSocket` throws synchronously.
\* A call made on behalf of the application ends the `stopped` period that
\* disconnect() began.
connect(s, by, throws) ==
    LET s0 == IF by = "timer" THEN s ELSE [s EXCEPT !.stopped = FALSE]
        s1 == clearReconnectTimeout(s0)
    IN  IF alreadyConnecting(s1) THEN s1
        ELSE
          LET a  == newAttempt(s1)
              s2 == [s1 EXCEPT !.promises[a] = "pending",
                               !.connectionPromise = a,
                               !.resolveConnectionPromise = a,
                               !.rejectConnectionPromise = a]
          IN  IF ~throws
              THEN [s2 EXCEPT !.sockets[a] = [readyState |-> "CONNECTING",
                                              opened |-> FALSE, by |-> by],
                              !.ws = a]
              ELSE \* catch: the stored reject function is called, not cleared
                   LET s3 == emit(s2, "disconnected", "")
                       s4 == IF s3.rejectConnectionPromise # NULL
                             THEN rejectPromise(s3, s3.rejectConnectionPromise)
                             ELSE s3
                   IN  scheduleReconnect(s4)

\* What connect() returned, s being the state it left: the stored promise
\* (lines 40 and 63), or Promise.resolve() when none is stored (line 40).
\* The value is the promise's number, NULL for the fresh resolved promise.
connectReturned(s) == s.connectionPromise

settlement(s, p) == IF p = NULL THEN "resolved" ELSE s.promises[p]

\* onopen without the reset of line 71.
onopen_keepsCounter(s) ==
    LET s1 == emit(s, "connected", "")
        s2 == IF s1.resolveConnectionPromise # NULL
              THEN resolvePromise(s1, s1.resolveConnectionPromise)
              ELSE s1
    IN  [s2 EXCEPT !.resolveConnectionPromise = NULL,
                   !.rejectConnectionPromise = NULL]

\* ---- ws.onopen ----------------------------------------------------------
onopen(s) ==
    LET s1 == emit([s EXCEPT !.reconnectAttempts = 0], "connected", "")
        s2 == IF s1.resolveConnectionPromise # NULL
              THEN resolvePromise(s1, s1.resolveConnectionPromise)
              ELSE s1
    IN  [s2 EXCEPT !.resolveConnectionPromise = NULL,
                   !.rejectConnectionPromise = NULL]

\* ---- ws.onerror ---------------------------------------------------------
onerror(s) == rejectPending(emit(s, "error", "event"))

\* onclose without the `event.code !== 1000` test of line 116.
onclose_anyCode(s, code) ==
    LET s1 == emit([s EXCEPT !.ws = NULL], "disconnected", "")
        s2 == rejectPending(s1)
    IN  scheduleReconnect(s2)

\* onclose with `===` for `!==` in the test of line 116.
onclose_onlyNormal(s, code) ==
    LET s1 == emit([s EXCEPT !.ws = NULL], "disconnected", "")
        s2 == rejectPending(s1)
    IN  IF code = NORMAL_CLOSURE THEN scheduleReconnect(s2) ELSE s2

\* ---- ws.onclose ---------------------------------------------------------
onclose(s, code) ==
    LET s1 == emit([s EXCEPT !.ws = NULL], "disconnected", "")
        s2 == rejectPending(s1)
    IN  IF code # NORMAL_CLOSURE THEN scheduleReconnect(s2) ELSE s2

\* ---- WebSocket.close(): an OPEN or CONNECTING socket starts closing -----
closeSocket(s, a) ==
    IF s.sockets[a].readyState \in {"CONNECTING", "OPEN"}
    THEN [s EXCEPT !.sockets[a].readyState = "CLOSING"]
    ELSE s

\* disconnect that resets the counter to 0 instead of line 189.
disconnect_resetsCounter(s) ==
    LET s1 == [clearReconnectTimeout(s)
                 EXCEPT !.reconnectAttempts = 0,
                        !.stopped = TRUE]
        s2 == IF s1.ws # NULL
              THEN [closeSocket(s1, s1.ws) EXCEPT !.ws = NULL,
                                                  !.released = @ \cup {s1.ws}]
              ELSE s1
    IN  emit(s2, "disconnected", "")

\* ---- disconnect(reason) -------------------------------------------------
disconnect(s) ==
    LET s1 == [clearReconnectTimeout(s)
                 EXCEPT !.reconnectAttempts = maxReconnectAttempts,
                        !.stopped = TRUE]
        s2 == IF s1.ws # NULL
              THEN [closeSocket(s1, s1.ws) EXCEPT !.ws = NULL,
                                                  !.released = @ \cup {s1.ws}]
              ELSE s1
    IN  emit(s2, "disconnected", "")

\* The command of a call is named by the least number that no suspended
\* call and no call completed in this task uses.
newCmd(s) ==
    LET used == {s.waiters[i].cmd : i \in 1 .. Len(s.waiters)}
                  \cup {s.returned[i].cmd : i \in 1 .. Len(s.returned)}
    IN  CHOOSE c \in 1 .. Cardinality(used) + 1 :
           c \notin used /\ \A d \in 1 .. c - 1 : d \in used

\* ---- sendCommand(command, payload) --------------------------------------
\* The test of lines 150-152: not connected, and no promise yet or the held
\* socket is CLOSED.
sendTriggersConnect(s) ==
    /\ ~isConnected(s)
    /\ \/ s.connectionPromise = NULL
       \/ (s.ws # NULL /\ s.sockets[s.ws].readyState = "CLOSED")

\* `await this.connectionPromise` (line 158): the call is suspended on the
\* stored promise, which thereby has a rejection handler.
awaitConnection(s) ==
    attach([s EXCEPT !.waiters =
                Append(@, [p |-> s.connectionPromise, cmd |-> newCmd(s)])],
           s.connectionPromise)

\* The synchronous part of a call: up to its `await`, or to its end when the
\* service is connected.
sendCommandCall(s, throws) ==
    IF ~isConnected(s)
    THEN awaitConnection(IF sendTriggersConnect(s)
                         THEN connect(s, "send", throws) ELSE s)
    ELSE sendTail(s, newCmd(s))

\* The call runs up to its `await`; when the awaited promise is already
\* settled the continuation runs at the end of the same task.
sendCommand(s, throws) == runMicrotasks(sendCommandCall(s, throws))

\* ---- listeners that call back into the service --------------------------
\* "reconnector" calls connect() and "resender" calls sendCommand() from
\* within the emit that called them. s.overflow: the call needs an attempt
\* or a suspended call more than the model has.
Reentrant == {"reconnector", "resender"}

invoke(s, fn) ==
    CASE fn = "reconnector" ->
           IF alreadyConnecting(clearReconnectTimeout(s)) \/ freeAttempts(s) # {}
           THEN connect(s, "connect", FALSE)
           ELSE [s EXCEPT !.overflow = TRUE]
      [] fn = "resender" ->
           IF /\ isConnected(s) \/ Len(s.waiters) < MaxWaiters
              /\ sendTriggersConnect(s) => freeAttempts(s) # {}
           THEN sendCommandCall(s, FALSE)
           ELSE [s EXCEPT !.overflow = TRUE]
      [] OTHER -> s

\* ======================= the tasks of the event loop =====================

\* A call of connect() creates an attempt only while the model has one left.
CanConnect(s, throws) ==
    IF alreadyConnecting(s) THEN ~throws ELSE freeAttempts(s) # {}

\* The application calls connect() and attaches .then/.catch to the promise
\* it gets back, as BootScene does.
Connect ==
    \E throws \in BOOLEAN :
        /\ CanConnect(Cur, throws)
        /\ \E s \in {connect(Cur, "connect", throws)} :
              Becomes(attach(s, s.connectionPromise), Label("connect", NULL, 0))

\* The application calls disconnect().
Disconnect ==
    \E s \in {disconnect(Cur)} : Becomes(s, Label("disconnect", NULL, 0))

\* The application calls sendCommand().
SendCommand ==
    \E throws \in BOOLEAN, bad \in BOOLEAN :
        \E s0 \in {[Cur EXCEPT !.writeFails = IF bad THEN {newCmd(Cur)} ELSE {}]} :
            /\ IF sendTriggersConnect(s0) THEN CanConnect(s0, throws) ELSE ~throws
            /\ bad => isConnected(s0)
            /\ \E s \in {sendCommand(s0, throws)} :
                  /\ Len(s.waiters) <= MaxWaiters
                  /\ Becomes(s, Label("sendCommand", NULL, 0))

\* The reconnect timer fires (the callback of setTimeout, lines 138-141).
TimerFire ==
    \E t \in timers, throws \in BOOLEAN :
        LET s1 == [Cur EXCEPT !.timers = @ \ {t}, !.reconnectTimeoutId = NULL]
        IN  /\ CanConnect(s1, throws)
            /\ Becomes(connect(s1, "timer", throws), Label("timer", NULL, 0))

\* The handshake of socket a completes: the open event. The sends it releases
\* may carry payloads that cannot be serialised.
SocketOpen(a) ==
    /\ sockets[a].readyState = "CONNECTING"
    /\ \E bad \in SUBSET {waiters[i].cmd : i \in 1 .. Len(waiters)} :
         LET s1 == [Cur EXCEPT !.sockets[a].readyState = "OPEN",
                               !.sockets[a].opened = TRUE,
                               !.writeFails = bad]
         IN  Becomes(runMicrotasks(onopen(s1)), Label("open", a, 0))

\* The server starts the closing handshake of socket a: readyState CLOSING.
ServerClosing(a) ==
    /\ sockets[a].readyState = "OPEN"
    /\ Becomes([Cur EXCEPT !.sockets[a].readyState = "CLOSING"],
               Label("closing", a, 0))

\* Socket a is closed: the error event (when the connection failed) and then
\* the close event, in one task with a microtask checkpoint after each
\* listener. A socket that never opened fails with an error and code 1006.
SocketClose(a, code, err) ==
    /\ sockets[a].readyState \in {"CONNECTING", "OPEN", "CLOSING"}
    /\ err => code = 1006
    /\ ~sockets[a].opened => err
    /\ \E s1 \in {[Cur EXCEPT !.sockets[a].readyState = "CLOSED"]} :
       \E s2 \in {IF err THEN runMicrotasks(onerror(s1)) ELSE s1} :
       \E s3 \in {onclose(s2, code)} :
          Becomes(runMicrotasks(s3), Label("close", a, code))

\* A frame arrives on socket a: the message event.
SocketMessage(a, text) ==
    /\ sockets[a].readyState \in {"OPEN", "CLOSING"}
    /\ Becomes(onmessage(Cur, text),
               [Label("message", a, 0) EXCEPT !.data = text])

\* A subscriber registers or removes a callback.
On(type, fn) ==
    /\ Len(SelectSeq(subs, LAMBDA r : r.fn \in Callbacks)) < MaxSubs
    /\ Becomes(on(Cur, type, fn), Label("on", NULL, 0))

Off(type, fn) ==
    \E s \in {off(Cur, type, fn)} : Becomes(s, Label("off", NULL, 0))

Next ==
    \/ Connect
    \/ Disconnect
    \/ SendCommand
    \/ TimerFire
    \/ \E a \in Attempts : SocketOpen(a)
    \/ \E a \in Attempts : ServerClosing(a)
    \/ \E a \in Attempts, code \in CloseCodes, err \in BOOLEAN : SocketClose(a, code, err)

Spec == Init /\ [][Next]_vars

\* ---- the router: frames and subscribers ----------------------------------
\* The service connects and reconnects, the server sends frames, subscribers
\* come and go. In RouterSpec no callback throws; FaultyRouterSpec adds
\* subscribers whose callback throws.
RouterNext ==
    \/ Connect
    \/ TimerFire
    \/ \E a \in Attempts : SocketOpen(a)
    \/ \E a \in Attempts, code \in CloseCodes, err \in BOOLEAN : SocketClose(a, code, err)
    \/ \E a \in Attempts, text \in InboundFrames : SocketMessage(a, text)
    \/ \E type \in FrameTypes, fn \in Callbacks \ Faulty : On(type, fn)
    \/ \E type \in FrameTypes, fn \in Callbacks : Off(type, fn)

RouterSpec == Init /\ [][RouterNext]_vars

OnFaulty == \E type \in FrameTypes, fn \in Faulty : On(type, fn)

FaultyRouterSpec == Init /\ [][RouterNext \/ OnFaulty]_vars

\* ---- a GameScene on the router --------------------------------------------
\* The scene is running: its create() has registered the callbacks and its
\* SHUTDOWN handler has not run since.
sceneRunning == \E i \in 1 .. Len(subs) : subs[i].fn = SceneHandlers.description

\* GameScene.create(): the four registrations, in the order of the code.
GameSceneCreate ==
    /\ ~sceneRunning
    /\ Becomes(on(on(on(on(Cur, "description", SceneHandlers.description),
                                "error", SceneHandlers.error),
                             "dialogue", SceneHandlers.dialogue),
                          "scene_change", SceneHandlers.scene_change),
               Label("create", NULL, 0))

\* The scene's SHUTDOWN handler: the four removals, in the order of the code.
GameSceneShutdown ==
    /\ sceneRunning
    /\ \E s \in {off(off(off(off(Cur, "description", SceneHandlers.description),
                                     "error", SceneHandlers.error),
                                "dialogue", SceneHandlers.dialogue),
                           "scene_change", SceneHandlers.scene_change)} :
          Becomes(s, Label("shutdown", NULL, 0))

\* The scene and other subscribers on a connection that opens and stays.
SceneNext ==
    \/ Connect
    \/ \E a \in Attempts : SocketOpen(a)
    \/ \E a \in Attempts, text \in InboundFrames \cup SceneFrames : SocketMessage(a, text)
    \/ \E type \in FrameTypes, fn \in Callbacks \ Faulty : On(type, fn)
    \/ \E type \in FrameTypes, fn \in Callbacks : Off(type, fn)
    \/ GameSceneCreate
    \/ GameSceneShutdown

SceneSpec == Init /\ [][SceneNext]_vars

\* ---- subscribers of the lifecycle events ---------------------------------
\* A subscriber registers for a lifecycle event, as BootScene does for
\* 'disconnected', or for 'message'; it never takes the registration back.
OnLifecycle ==
    \E type \in LifecycleTypes \cup {"message"} : On(type, "handler")

LifecycleNext ==
    \/ Connect
    \/ Disconnect
    \/ \E a \in Attempts : SocketOpen(a)
    \/ \E a \in Attempts, code \in CloseCodes, err \in BOOLEAN : SocketClose(a, code, err)
    \/ \E a \in Attempts, text \in InboundFrames \cup LifecycleFrames : SocketMessage(a, text)
    \/ OnLifecycle

LifecycleSpec == Init /\ [][LifecycleNext]_vars

\* ---- subscribers that call back into the service -------------------------
\* The registrations of such listeners: for 'disconnected' one that calls
\* connect() or sendCommand(), for 'connected' one that calls sendCommand().
ReentrantRegistrations ==
    { [type |-> "disconnected", fn |-> "reconnector"],
      [type |-> "disconnected", fn |-> "resender"],
      [type |-> "connected",    fn |-> "resender"] }

OnReentrant ==
    \E r \in ReentrantRegistrations :
        /\ Len(subs) < MaxSubs
        /\ \A i \in 1 .. Len(subs) : subs[i] # r
        /\ Becomes(on(Cur, r.type, r.fn), Label("on", NULL, 0))

ReentrantNext ==
    \/ Connect
    \/ Disconnect
    \/ SendCommand
    \/ TimerFire
    \/ \E a \in Attempts : SocketOpen(a)
    \/ \E a \in Attempts, code \in CloseCodes, err \in BOOLEAN : SocketClose(a, code, err)
    \/ OnReentrant

ReentrantSpec == Init /\ [][ReentrantNext]_vars

\* ---- BootScene.create() --------------------------------------------------
\* The game boots: connect() with then/catch attached to the promise it
\* returns (Promise.resolve() when the service stores none), and a listener
\* for 'disconnected'.
BootSceneCreate ==
    /\ scene = "none"
    /\ \E throws \in BOOLEAN :
         /\ CanConnect(Cur, throws)
         /\ \E s \in {connect(Cur, "connect", throws)} :
               LET p  == connectReturned(s)
                   s1 == [attach(s, p) EXCEPT
                            !.scene = IF p = NULL THEN "GameScene" ELSE "BootScene",
                            !.bootPromise = p]
               IN  Becomes(on(s1, "disconnected", "bootListener"), Label("boot", NULL, 0))

\* The transport settles every socket: a socket that is CONNECTING or CLOSING
\* eventually gets its open or its close event. An armed timer fires.
SocketSettles(a) ==
    /\ sockets[a].readyState \in {"CONNECTING", "CLOSING"}
    /\ \/ SocketOpen(a)
       \/ \E code \in CloseCodes, err \in BOOLEAN : SocketClose(a, code, err)

FairSpec ==
    /\ Spec
    /\ \A a \in Attempts : WF_vars(SocketSettles(a))
    /\ WF_vars(TimerFire)

\* ---- the game from its boot ------------------------------------------------
\* The player's input is sent once the GameScene runs.
GameSceneSend == scene = "GameScene" /\ SendCommand

BootNext ==
    \/ BootSceneCreate
    \/ GameSceneSend
    \/ TimerFire
    \/ \E a \in Attempts : SocketOpen(a)
    \/ \E a \in Attempts : ServerClosing(a)
    \/ \E a \in Attempts, code \in CloseCodes, err \in BOOLEAN : SocketClose(a, code, err)

\* An armed timer fires and a socket that is CONNECTING or CLOSING gets its
\* open or close event.
BootSpec ==
    /\ Init
    /\ [][BootNext]_vars
    /\ WF_vars(TimerFire)
    /\ \A a \in Attempts : WF_vars(SocketSettles(a))

\* ---- the service left to itself ------------------------------------------
\* The connection's life with sendCommand called only in the retry scenario
\* (the application called connect() once and every attempt so far failed
\* before it opened). In that scenario a failing attempt and an armed timer
\* do not wait forever.
AttemptFails(a) ==
    /\ sockets[a].readyState = "CONNECTING"
    /\ SocketClose(a, 1006, TRUE)

UnattendedSend == retryOnly /\ SendCommand

UnattendedNext ==
    \/ Connect
    \/ Disconnect
    \/ UnattendedSend
    \/ TimerFire
    \/ \E a \in Attempts : SocketOpen(a)
    \/ \E a \in Attempts : ServerClosing(a)
    \/ \E a \in Attempts, code \in CloseCodes, err \in BOOLEAN : SocketClose(a, code, err)

UnattendedSpec ==
    /\ Init
    /\ [][UnattendedNext]_vars
    /\ WF_vars(retryOnly /\ TimerFire)
    /\ \A a \in Attempts : WF_vars(retryOnly /\ AttemptFails(a))

TypeOK ==
    /\ ws \in 0 .. MaxLive
    /\ reconnectAttempts \in 0 .. maxReconnectAttempts
    /\ \A a \in Attempts : promises[a] \in {"none", "pending", "resolved", "rejected"}
    /\ handled \subseteq {a \in Attempts : promises[a] # "none"}
    /\ Len(waiters) <= MaxWaiters
    /\ Len(armed) <= 1
    /\ released \subseteq {a \in Attempts : sockets[a].readyState = "CLOSING"}
    /\ Len(subs) <= MaxSubs + Cardinality(SceneTypes)
    /\ \A i \in 1 .. Len(subs) :
          \/ subs[i].type \in FrameTypes \cup LifecycleTypes /\ subs[i].fn \in Callbacks
          \/ subs[i].type \in SceneTypes /\ subs[i].fn = SceneHandlers[subs[i].type]
          \/ subs[i] \in ReentrantRegistrations
          \/ subs[i] = [type |-> "disconnected", fn |-> "bootListener"]
    /\ scene \in {"none", "BootScene", "GameScene"}
    /\ bootPromise # NULL => scene = "BootScene" /\ promises[bootPromise] = "pending"
    /\ \A r \in removed : \A i \in 1 .. Len(subs) :
          subs[i] # [type |-> r.type, fn |-> r.fn]

\* ============================ the claims =================================

InFlight   == {a \in Attempts : sockets[a].readyState = "CONNECTING"}
Pending    == {a \in Attempts : promises[a] = "pending"}
Alive      == {a \in Attempts : sockets[a].readyState \in {"CONNECTING", "OPEN"}}

\* The attempts the step made: numbers that were free and are now in use.
Started    == {a \in freeAttempts(Cur) : promises'[a] # "none"}

\* Nothing is under way: no socket held, none connecting, no promise pending,
\* no reconnect timer armed, and the application has not asked to stay
\* disconnected.
Quiet ==
    /\ ~stopped
    /\ ws = NULL
    /\ InFlight = {}
    /\ Pending = {}
    /\ timers = {}

\* C1: in every state where isConnected() is false and no attempt is in
\* flight, a call of sendCommand starts exactly one connection attempt.
C1_SendStartsOneAttempt ==
    [][ (step'.op = "sendCommand" /\ ~isConnected(Cur) /\ Quiet)
            => Cardinality(Started) = 1 ]_vars

\* C2: every promise returned by connect() eventually settles, given that
\* every created socket eventually opens or closes.
C2_EveryPromiseSettles ==
    \A a \in Attempts : (promises[a] = "pending") ~> (promises[a] # "pending")

\* C3: the promise of an attempt is resolved only by the open event of the
\* socket of the same attempt, and rejected only by the error/close event of
\* that socket before it opened; no event of another socket settles it.
C3_SettledByOwnSocketOnly ==
    [][ \A a \in Attempts :
          (promises[a] = "pending" /\ promises'[a] # "pending")
            => /\ step'.sock = a
               /\ promises'[a] = "resolved" => step'.op = "open"
               /\ promises'[a] = "rejected"
                     => (step'.op = "close" /\ ~sockets[a].opened) ]_vars

\* C4: at any time at most one socket created by the service is CONNECTING
\* or OPEN.
C4_AtMostOneLiveSocket == Cardinality(Alive) <= 1

\* C5: whenever connect() replaces connectionPromise, the promise replaced is
\* absent or already settled.
C5_NoGateReplacedWhilePending ==
    [][ (connectionPromise' # connectionPromise /\ connectionPromise # NULL)
            => promises[connectionPromise] # "pending" ]_vars

Emitted(type) == \E i \in 1 .. Len(emits) : emits[i].type = type

\* The field reconnectTimeoutId names the armed timer, and there is no other.
TimersOK ==
    /\ Cardinality(timers) <= 1
    /\ timers = IF reconnectTimeoutId = NULL THEN {} ELSE {reconnectTimeoutId}

\* C6: at most one reconnect timer is outstanding in every state, and a call
\* of connect() cancels the pending timer (none is armed after the call,
\* unless the call itself failed and scheduled the next reconnect).
C6_AtMostOneTimer ==
    /\ []TimersOK
    /\ [][ (step'.op = "connect" /\ ~Emitted("disconnected")') => timers' = {} ]_vars

\* A close event found a timer armed while another socket is still connecting.
C6_Witness ==
    /\ step.op = "close"
    /\ step.code # NORMAL_CLOSURE
    /\ Cardinality(timers) = 1
    /\ InFlight # {}

\* C7: after the counter reached the maximum, an explicit connect() makes
\* automatic reconnection eligible again: when the attempt it started fails
\* with a non-1000 closure, a reconnect timer is armed.
C7_ManualConnectResetsEligibility ==
    [][ ( /\ step'.op = "close"
          /\ step'.code # NORMAL_CLOSURE
          /\ ws = step'.sock
          /\ sockets[step'.sock].by = "connect"
          /\ ~sockets[step'.sock].opened
          /\ reconnectAttempts = maxReconnectAttempts )
            => reconnectTimeoutId' # NULL ]_vars

\* C8: once the counter equals the maximum, a socket error or close with any
\* code arms no timer and leaves the counter at the maximum.
C8_NoRetryAtMaximum ==
    [][ (step'.op = "close" /\ reconnectAttempts = maxReconnectAttempts)
            => /\ timers' = timers
               /\ reconnectTimeoutId' = reconnectTimeoutId
               /\ reconnectAttempts' = maxReconnectAttempts ]_vars

\* A non-1000 closure has been handled with the counter at the maximum and
\* no timer armed (a closure that raised the counter to 5 arms a timer).
C8_Witness ==
    /\ step.op = "close"
    /\ step.code # NORMAL_CLOSURE
    /\ reconnectAttempts = maxReconnectAttempts
    /\ timers = {}

\* C9: right after disconnect() isConnected() is false, and from then until
\* connect() is called again no reconnect timer is armed.
C9_NoReconnectAfterDisconnect ==
    /\ step.op = "disconnect" => ~isConnected(Cur)
    /\ stopped => (timers = {} /\ reconnectTimeoutId = NULL)

\* C10: a closure with code 1000 arms no timer and leaves the counter alone;
\* a closure with any other code, the counter being below the maximum, leaves
\* a reconnect timer armed (a new one, counted, unless one was already armed).
C10_CloseCodeDecidesReconnect ==
    [][ step'.op = "close" =>
          IF step'.code = NORMAL_CLOSURE
          THEN /\ timers' = timers
               /\ reconnectTimeoutId' = reconnectTimeoutId
               /\ reconnectAttempts' = reconnectAttempts
          ELSE reconnectAttempts < maxReconnectAttempts
                 => /\ reconnectTimeoutId' # NULL
                    /\ timers' = {reconnectTimeoutId'}
                    /\ reconnectAttempts' =
                          IF reconnectTimeoutId = NULL
                          THEN reconnectAttempts + 1 ELSE reconnectAttempts ]_vars

\* A server-initiated closure with code 1000 (the application never called
\* disconnect) has been handled below the maximum, and no timer is armed.
C10_Witness ==
    /\ step.op = "close"
    /\ step.code = NORMAL_CLOSURE
    /\ ~stopped
    /\ reconnectAttempts < maxReconnectAttempts
    /\ timers = {}

\* C11 as stated: after every closure with a code other than 1000 exactly
\* one reconnect timer is armed, and a connect() made while a timer is armed
\* leaves no second one.
C11_OneTimerAfterClose ==
    [][ /\ (step'.op = "close" /\ step'.code # NORMAL_CLOSURE)
            => Cardinality(timers') = 1
        /\ (step'.op = "connect" /\ timers # {})
            => Cardinality(timers') <= 1 ]_vars

\* C11 amended: the same for closures handled with the counter below the
\* maximum (at the maximum no timer is armed, see C8).
C11_OneTimerAfterCloseBelowMax ==
    [][ /\ ( /\ step'.op = "close"
             /\ step'.code # NORMAL_CLOSURE
             /\ reconnectAttempts < maxReconnectAttempts )
            => (Cardinality(timers') = 1 /\ timers' = {reconnectTimeoutId'})
        /\ (step'.op = "connect" /\ timers # {})
            => (Cardinality(timers') <= 1 /\ (~Emitted("disconnected")' => timers' = {})) ]_vars

\* A closure with a code other than 1000 has armed the first timer.
C11_Witness ==
    /\ step.op = "close"
    /\ step.code # NORMAL_CLOSURE
    /\ ~stopped
    /\ reconnectAttempts = 1
    /\ Cardinality(timers) = 1

\* The service holds a socket that is connecting or open.
Holding == ws # NULL /\ sockets[ws].readyState \in {"CONNECTING", "OPEN"}

\* First half of C12: the connect() the reconnect timer makes starts an
\* attempt (the service holds a socket afterwards, or the construction threw
\* and 'disconnected' was emitted).
C12_TimerStartsAttempt ==
    [][step'.op = "timer" => (Holding' \/ Emitted("disconnected")')]_vars

\* Second half of C12: a socket the reconnect timer created and the server
\* accepted makes isConnected() true, unless disconnect() is called.
C12_AcceptedRetryConnects ==
    (step.op = "open" /\ sockets[step.sock].by = "timer")
        ~> (isConnected(Cur) \/ stopped)

\* C12: after a failed attempt or a non-1000 closure below the maximum, and
\* without disconnect(), a new attempt is eventually started, and if the
\* server accepts it isConnected() eventually becomes true again.
C12_ReconnectEventuallyConnects ==
    C12_TimerStartsAttempt /\ C12_AcceptedRetryConnects

\* The retry scenario: the application called connect() once and nothing
\* else, and every attempt so far failed before it opened.
Unattended == retryOnly /\ step.op # "init"

\* In that scenario every armed timer was counted, so the attempts the
\* reconnect timer has made are the counted ones whose timer has fired.
Retries == reconnectAttempts - Cardinality(timers)

Quiescent ==
    /\ timers = {}
    /\ reconnectTimeoutId = NULL
    /\ ws = NULL
    /\ \A a \in Attempts : sockets[a] = NoSocket

\* C13: in the retry scenario the reconnect timer makes at most 5 attempts
\* (Retries counts them: it grows by one with each firing and with nothing
\* else, and never exceeds 5); the service then reaches a state with no timer
\* armed and no socket, and stays there until connect() is called.
C13_RetriesBoundedThenQuiescent ==
    /\ [][retryOnly' => Retries' = Retries + (IF step'.op = "timer" THEN 1 ELSE 0)]_vars
    /\ [](Unattended => Retries <= maxReconnectAttempts)
    /\ Unattended ~> (~retryOnly \/ (Quiescent /\ Retries = maxReconnectAttempts))
    /\ [][(Unattended /\ Quiescent /\ step'.op # "connect") => Quiescent']_vars

\* After the fifth automatic attempt failed: nothing armed, nothing held.
C13_Witness ==
    /\ Unattended
    /\ Quiescent
    /\ Retries = maxReconnectAttempts
    /\ step.op = "close"

\* The 'error' events of the last task, and those with a given message.
Errors == {k \in 1 .. Len(emits) : emits[k].type = "error"}
ErrorsSaying(msg) == {k \in Errors : emits[k].msg = msg}

GateFailed == "Failed to connect to server to send command."

\* The suspended calls whose promise the step rejects, and whether the step
\* is a sendCommand call, made while disconnected, whose promise is rejected
\* when it awaits it.
FailedWaits ==
    {i \in 1 .. Len(waiters) : /\ promises[waiters[i].p] = "pending"
                               /\ promises'[waiters[i].p] = "rejected"}

FailedCall ==
    /\ step'.op = "sendCommand"
    /\ ~isConnected(Cur)
    /\ connectionPromise' # NULL
    /\ promises'[connectionPromise'] = "rejected"

FailedSends == Cardinality(FailedWaits) + (IF FailedCall THEN 1 ELSE 0)

NotTransmitted ==
    /\ \A i \in FailedWaits : \A k \in 1 .. Len(sent') : sent'[k].cmd # waiters[i].cmd
    /\ FailedCall => sent' = << >>

\* C14 as stated: when the attempt a disconnected sendCommand waits on fails,
\* the task emits exactly one 'error' event and transmits no frame.
C14_OneErrorEventOnGateFailure ==
    [][FailedSends = 1 => (Cardinality(Errors') = 1 /\ NotTransmitted)]_vars

\* C14 amended: each sendCommand whose attempt fails emits exactly one
\* 'error' event of its own (the gate-failure message) and transmits nothing;
\* the socket's own 'error' event is emitted besides.
C14_OneGateFailureEventPerSend ==
    [][ /\ Cardinality(ErrorsSaying(GateFailed)') = FailedSends
        /\ NotTransmitted ]_vars

\* A suspended send was failed by the error/close of the socket: the
\* socket's 'error' event and the send's own were both emitted.
C14_Witness ==
    /\ step.op = "close"
    /\ Cardinality(ErrorsSaying(GateFailed)) = 1
    /\ Cardinality(Errors) = 2
    /\ sent = << >>

\* C15: a command of a sendCommand that had to wait is written only in a
\* task that leaves its promise resolved, a call made while disconnected
\* writes nothing in its own task, and every frame is written to the socket
\* the service holds, which is OPEN.
C15_WrittenOnlyAfterGateToHeldOpenSocket ==
    [][ /\ \A i \in 1 .. Len(waiters) :
              (\E k \in 1 .. Len(sent') : sent'[k].cmd = waiters[i].cmd)
                  => /\ promises[waiters[i].p] = "pending"
                     /\ promises'[waiters[i].p] = "resolved"
        /\ (step'.op = "sendCommand" /\ ~isConnected(Cur)) => sent' = << >>
        /\ \A k \in 1 .. Len(sent') :
              /\ sent'[k].sock # NULL
              /\ sent'[k].sock = ws'
              /\ sockets'[ws'].readyState = "OPEN" ]_vars

\* The open event released two suspended sends, written in call order.
C15_Witness ==
    /\ step.op = "open"
    /\ Len(sent) = 2
    /\ sent[1].cmd = 1 /\ sent[2].cmd = 2
    /\ sent[1].sock = ws

\* The sendCommand call with command c is suspended at its await.
Waiting(c) == \E i \in 1 .. Len(waiters) : waiters[i].cmd = c

\* C16: every suspended sendCommand eventually completes (its command is
\* written or an 'error' event is emitted), given that every socket
\* eventually opens or closes, whatever connect()/disconnect() calls occur.
C16_EverySendCompletes ==
    \A c \in 1 .. MaxWaiters : Waiting(c) ~> ~Waiting(c)

SendErrors ==
    {"Failed to connect to server to send command.",
     "Failed to send command via WebSocket.",
     "Cannot send command, WebSocket is not connected."}

\* The sendCommand calls that completed in the last task with a given end.
Returned(how) == {k \in 1 .. Len(returned) : returned[k].how = how}

\* C17: no sendCommand ends by rejecting its promise; one that does not
\* write its command (gate failure, not connected after the wait, write
\* failure) emits one 'error' event and returns, one that writes emits none,
\* and a suspended call that leaves its await ends in one of these ways.
C17_SendNeverRejects ==
    [][ /\ Returned("rejected")' = {}
        /\ Cardinality(Returned("sent")') = Len(sent')
        /\ Cardinality(Returned("reported")')
             = Cardinality({k \in Errors' : emits'[k].msg \in SendErrors})
        /\ \A i \in 1 .. Len(waiters) :
              (\E j \in 1 .. Len(waiters') : waiters'[j].cmd = waiters[i].cmd)
              \/ \E k \in 1 .. Len(returned') : returned'[k].cmd = waiters[i].cmd ]_vars

\* A released send could not be written: it was reported, not thrown.
C17_Witness ==
    /\ step.op = "open"
    /\ isConnected(Cur)
    /\ ErrorsSaying("Failed to send command via WebSocket.") # {}
    /\ Returned("reported") # {}
    /\ Returned("sent") # {}

\* The promises the last step rejected.
Rejected == {a \in Attempts : promises[a] # "rejected" /\ promises'[a] = "rejected"}

\* C18: every promise the service rejects has a rejection handler by the end
\* of the task that rejects it, the promise of the reconnect timer's
\* connect() included.
C18_EveryRejectionHandled ==
    [][Rejected \subseteq handled']_vars

\* The frame of the last message event, parsed.
Frame == JSONparse(step.data)

\* How often a task, given its log of calls, called fn for an event with an
\* argument, and how often fn is registered for a type.
Invocations(log, fn, type, arg) ==
    Cardinality({k \in 1 .. Len(log) :
                    log[k] = [fn |-> fn, type |-> type, arg |-> arg]})

Registrations(type, fn) ==
    Cardinality({i \in 1 .. Len(subs) : subs[i] = [type |-> type, fn |-> fn]})

\* C19: when a frame {type, payload} is dispatched, every callback
\* registered for 'message' or for the frame's type is called, also when a
\* callback called before it throws.
C19_ThrowDoesNotStopDelivery ==
    [][ (step'.op = "message" /\ Frame'.object) =>
          \A i \in 1 .. Len(subs) :
             /\ subs[i].type = "message"
                   => Invocations(calls', subs[i].fn, "message", step'.data) >= 1
             /\ subs[i].type = Frame'.type
                   => Invocations(calls', subs[i].fn, Frame'.type, Frame'.payload) >= 1 ]_vars

\* C20: a frame that parses to {type, payload} makes exactly two emissions,
\* 'message' with the whole frame and then the frame's type with the
\* payload, and a callback is called with the payload once for each of its
\* registrations for that type (and no callback is called besides those of
\* the two emissions).
C20_TwoEmissionsPerFrame ==
    [][ (step'.op = "message" /\ Frame'.object) =>
          /\ emits' = << [type |-> "message", msg |-> step'.data],
                         [type |-> Frame'.type, msg |-> Frame'.payload] >>
          /\ \A fn \in Callbacks :
                /\ Invocations(calls', fn, Frame'.type, Frame'.payload)
                      = Registrations(Frame'.type, fn)
                /\ Invocations(calls', fn, "message", step'.data)
                      = Registrations("message", fn)
          /\ Len(calls') = Cardinality({i \in 1 .. Len(subs) : subs[i].type = "message"})
                            + Cardinality({i \in 1 .. Len(subs) : subs[i].type = Frame'.type}) ]_vars

\* A description frame reached the 'message' subscriber with the frame and
\* then the 'description' subscriber with the payload.
C20_Witness ==
    /\ step.op = "message"
    /\ Frame.type = "description"
    /\ calls = << [fn |-> "other", type |-> "message", arg |-> step.data],
                  [fn |-> "handler", type |-> "description", arg |-> "look"] >>

\* C21: a frame whose text is not valid JSON calls no subscriber and emits
\* nothing (no 'message', no typed event, no 'error'), and leaves the socket
\* handle, the sockets, the connection promise, the counter and the timer as
\* they were.
C21_MalformedFrameAbsorbed ==
    [][ (step'.op = "message" /\ ~Frame'.ok) =>
          /\ calls' = << >>
          /\ emits' = << >>
          /\ UNCHANGED << ws, sockets, promises, connectionPromise,
                          resolveConnectionPromise, rejectConnectionPromise,
                          reconnectAttempts, reconnectTimeoutId, timers, subs >> ]_vars

\* Text that is no JSON arrived while subscribers for both events were
\* registered.
C21_Witness ==
    /\ step.op = "message"
    /\ step.data = "not json"
    /\ \E i \in 1 .. Len(subs) : subs[i].type = "message"
    /\ \E i \in 1 .. Len(subs) : subs[i].type = "description"
    /\ calls = << >>
    /\ isConnected(Cur)

\* C22: a callback taken back with off(type, f, ctx) and not registered
\* again is called by no emission of that type, and no callback is called
\* that is not registered; the same for the four registrations of a GameScene
\* once its SHUTDOWN handler has run.
C22_RemovedIsNotCalled ==
    /\ \A k \in 1 .. Len(calls) :
          /\ [type |-> calls[k].type, fn |-> calls[k].fn] \notin removed
          /\ \E i \in 1 .. Len(subs) :
                subs[i] = [type |-> calls[k].type, fn |-> calls[k].fn]
    /\ ~sceneRunning =>
          \A i \in 1 .. Len(subs), type \in SceneTypes : subs[i].fn # SceneHandlers[type]

\* A 'description' frame is delivered to the callback that is still
\* registered, after the scene's callbacks and one more were taken back.
C22_Witness ==
    /\ step.op = "message"
    /\ Frame.object /\ Frame.type = "description"
    /\ [type |-> "description", fn |-> SceneHandlers.description] \in removed
    /\ [type |-> "description", fn |-> "handler"] \in removed
    /\ Len(calls) = 1 /\ calls[1].fn = "other"

\* C23: when sendCommand calls are suspended on the same promise and the
\* promise resolves, the commands that are written are written in the order
\* in which the calls were made.
C23_WrittenInCallOrder ==
    [][ \A i, j \in 1 .. Len(waiters) :
          ( /\ i < j
            /\ waiters[i].p = waiters[j].p
            /\ promises[waiters[i].p] = "pending"
            /\ step'.op = "open" )
          => \A m, n \in 1 .. Len(sent') :
                (sent'[m].cmd = waiters[i].cmd /\ sent'[n].cmd = waiters[j].cmd)
                   => m < n ]_vars

\* Two sends that waited for the same attempt were both written when it
\* opened, and no call is left waiting.
C23_Witness ==
    /\ step.op = "open"
    /\ waiters = << >>
    /\ Len(sent) = 2 /\ sent[1].cmd < sent[2].cmd
    /\ Len(returned) = 2
    /\ \A k \in 1 .. 2 : returned[k] = [cmd |-> sent[k].cmd, how |-> "sent"]

\* C24: connect() called while the held socket is OPEN returns a promise
\* that is already resolved, creates no socket, leaves the held socket, the
\* sockets and the reconnect counter as they were, and a second call changes
\* nothing the first did not.
C24_ConnectWhileOpenIsNoOp ==
    [][ (step'.op = "connect" /\ isConnected(Cur)) =>
          /\ settlement(Cur, connectReturned(connect(Cur, "connect", FALSE))) = "resolved"
          /\ Started = {}
          /\ UNCHANGED << ws, sockets, promises, connectionPromise, reconnectAttempts >>
          /\ connect(connect(Cur, "connect", FALSE), "connect", FALSE)
                = connect(Cur, "connect", FALSE) ]_vars

\* connect() was called while the held socket was OPEN.
C24_Witness ==
    /\ step.op = "connect"
    /\ isConnected(Cur)
    /\ settlement(Cur, connectionPromise) = "resolved"

\* C25: connect() called while the held socket is CONNECTING returns the
\* promise that was created with that socket, still pending, and creates no
\* second socket or promise: both callers hold one promise and so see one
\* outcome.
C25_ConnectWhileConnectingShares ==
    [][ (step'.op = "connect" /\ ws # NULL /\ sockets[ws].readyState = "CONNECTING") =>
          /\ connectReturned(connect(Cur, "connect", FALSE)) = ws
          /\ settlement(Cur, ws) = "pending"
          /\ Started = {}
          /\ UNCHANGED << ws, sockets, promises, connectionPromise,
                          resolveConnectionPromise, rejectConnectionPromise >> ]_vars

\* The part that holds: the promise returned is the one created with the held
\* socket, and no second socket or promise is created.
C25_SamePromiseNoSecondSocket ==
    [][ (step'.op = "connect" /\ ws # NULL /\ sockets[ws].readyState = "CONNECTING") =>
          /\ connectReturned(connect(Cur, "connect", FALSE)) = ws
          /\ Started = {}
          /\ UNCHANGED << ws, sockets, promises, connectionPromise >> ]_vars

\* C26: when the task of a socket's open event ends, reconnectAttempts is 0,
\* whatever it was before.
C26_OpenResetsCounter ==
    [][ step'.op = "open" => reconnectAttempts' = 0 ]_vars

\* A socket opened after disconnect() had put the counter at its maximum and
\* no connect() of the application has been made since.
C26_Witness ==
    /\ step.op = "open"
    /\ stopped
    /\ reconnectAttempts = 0

\* C27: reconnectAttempts stays within 0 .. 5 and a task changes it in one
\* of three ways only: by +1 together with arming a reconnect timer, to 0 in
\* the task of an open event, to 5 in disconnect(); every arming of a timer
\* adds 1, and the counter decreases in the task of an open event only.
C27_CounterChanges ==
    [][ /\ reconnectAttempts' \in 0 .. maxReconnectAttempts
        /\ reconnectAttempts' # reconnectAttempts =>
              \/ /\ reconnectAttempts' = reconnectAttempts + 1
                 /\ reconnectTimeoutId' # NULL
                 /\ reconnectTimeoutId' \in timers'
                 /\ step'.op \notin {"open", "disconnect"}
              \/ step'.op = "open" /\ reconnectAttempts' = 0
              \/ step'.op = "disconnect" /\ reconnectAttempts' = maxReconnectAttempts
        /\ (reconnectTimeoutId' # NULL /\ (reconnectTimeoutId = NULL \/ step'.op = "timer"))
              => reconnectAttempts' = reconnectAttempts + 1
        /\ step'.op = "disconnect" => reconnectAttempts' = maxReconnectAttempts
        /\ reconnectAttempts' < reconnectAttempts => step'.op = "open" ]_vars

\* A reconnect timer is armed and the counter is at its maximum, not put
\* there by disconnect().
C27_Witness ==
    /\ step.op = "close"
    /\ reconnectAttempts = maxReconnectAttempts
    /\ reconnectTimeoutId # NULL
    /\ ~stopped

\* C28: isConnected() is true exactly when a socket the service created is
\* OPEN (its handshake is complete and neither side has started to close it).
C28_ConnectedIffSomeSocketOpen ==
    isConnected(Cur) <=> (\E a \in Attempts : sockets[a].readyState = "OPEN")

\* The delays named by min(3000 * 1.5^(n-1), 30000) for n = 1 .. 5, in ms.
Expected ==
    << [num |-> 3000, den |-> 1], [num |-> 4500, den |-> 1], [num |-> 6750, den |-> 1],
       [num |-> 10125, den |-> 1], [num |-> 30375, den |-> 2] >>

\* C29: the reconnect timer armed as attempt n (the counter after the
\* increment) gets the delay min(3000 * 1.5^(n-1), 30000) ms; the delay is
\* not below that of attempt n-1 and not above 30000 ms.
C29_BackoffDelay ==
    [][ \A k \in 1 .. Len(armed') :
          LET n == reconnectAttempts'
          IN  /\ n \in 1 .. maxReconnectAttempts
              /\ same(armed'[k], Expected[n])
              /\ leq(armed'[k], [num |-> 30000, den |-> 1])
              /\ n > 1 => leq(Expected[n - 1], armed'[k]) ]_vars

\* The fifth timer was armed, with 15187.5 ms.
C29_Witness ==
    /\ Len(armed) = 1
    /\ same(armed[1], [num |-> 151875, den |-> 10])
    /\ reconnectAttempts = maxReconnectAttempts
    /\ reconnectTimeoutId \in timers

\* C30: the error/close event of a socket that is not the held one (released
\* by disconnect() or replaced by a later connect()) leaves the handle, the
\* pending promise of the newer attempt and the reconnect timer as they were.
C30_StaleEventChangesNothing ==
    [][ (step'.op = "close" /\ step'.sock # ws) =>
          /\ ws' = ws
          /\ \A a \in Pending \ {step'.sock} : promises'[a] = "pending"
          /\ reconnectTimeoutId' = reconnectTimeoutId
          /\ timers' = timers ]_vars

\* C31: subscribers of 'connected' are called only in the task of a socket's
\* open event, subscribers of 'disconnected' only in the task of a close
\* event, of a failed construction or of disconnect(); the task of an inbound
\* frame calls no subscriber of 'connected' or 'disconnected' and calls each
\* subscriber of 'message' once per registration.
C31_LifecycleEventsNotForged ==
    [][ /\ \A k \in 1 .. Len(calls') :
             /\ calls'[k].type = "connected" => step'.op = "open"
             /\ calls'[k].type = "disconnected"
                   => step'.op \in {"close", "disconnect", "connect", "timer", "sendCommand"}
        /\ step'.op = "message" =>
              \A i \in 1 .. Len(subs) :
                 subs[i].type = "message" =>
                    Cardinality({k \in 1 .. Len(calls') : calls'[k].fn = subs[i].fn
                                                          /\ calls'[k].type = "message"})
                       <= Registrations("message", subs[i].fn) ]_vars

\* The 'disconnected' events the last task emitted.
Disconnects == Cardinality({i \in 1 .. Len(emits) : emits[i].type = "disconnected"})

\* C32: every loss of a socket is reported by one 'disconnected' event: the
\* close event of a socket reports it once, unless disconnect() released the
\* socket and reported the loss already; a call of disconnect() emits one
\* 'disconnected'.
C32_OneDisconnectedPerLoss ==
    [][ /\ step'.op = "close" =>
              Disconnects' = IF step'.sock \in released THEN 0 ELSE 1
        /\ step'.op = "disconnect" => Disconnects' = 1 ]_vars

\* The part that holds: one 'disconnected' per task that loses or releases a
\* socket.
C32_OneDisconnectedPerTask ==
    [][ /\ step'.op \in {"close", "disconnect"} => Disconnects' = 1
        /\ Disconnects' <= 1 ]_vars

\* C33: whenever a reconnect timer is outstanding the service holds no
\* socket that is CONNECTING or OPEN, also when a subscriber of
\* 'disconnected' calls connect() or sendCommand() from within the emit.
C33_NoHeldSocketWhileTimerArmed ==
    timers # {} => ~alreadyConnecting(Cur)

\* C34: commands are written in the order of the sendCommand calls: within
\* a task, the commands of the calls that were suspended before the task are
\* written in call order, and no command of a call made during the task (by
\* a subscriber of 'connected', say) is written before one of them.
C34_WrittenInCallOrderAcrossCalls ==
    [][ \A m, n \in 1 .. Len(sent') :
          m < n =>
            LET pos(c) == IF \E i \in 1 .. Len(waiters) : waiters[i].cmd = c
                          THEN CHOOSE i \in 1 .. Len(waiters) : waiters[i].cmd = c
                          ELSE Len(waiters) + 1
            IN  pos(sent'[m].cmd) <= pos(sent'[n].cmd) ]_vars

\* C35: once BootScene.create() has run, whenever the service is connected
\* the GameScene is eventually started, also when the first attempt failed
\* and a later automatic reconnect succeeded.
C35_ConnectedLeadsToGameScene ==
    (scene # "none" /\ isConnected(Cur)) ~> (scene = "GameScene")

\* The part that holds: the GameScene is started when the attempt of
\* BootScene's own connect() call succeeds, and only then.
C35_GameSceneOnFirstSuccess ==
    [][ (scene = "BootScene" /\ scene' = "GameScene")
            <=> (bootPromise # NULL /\ step'.op = "open"
                 /\ resolveConnectionPromise = bootPromise) ]_vars

\* The last task called connect() and `new WebSocket` threw: of the tasks
\* that call connect() only such a one emits 'disconnected'.
ConstructionFailed ==
    step.op \in {"connect", "timer", "sendCommand"} /\ Emitted("disconnected")

\* C36: when `new WebSocket` throws inside connect(), the promise the call
\* returns is rejected, 'disconnected' is emitted once, the call creates and
\* holds no socket, and a reconnect timer is armed as after a failed
\* handshake: with the counter incremented and the delay of that attempt
\* when the counter was below the maximum, not at all when it was at it.
C36_ConstructionFailureHandled ==
    [][ ConstructionFailed' =>
          /\ connectReturned(Cur') \in Started
          /\ settlement(Cur', connectReturned(Cur')) = "rejected"
          /\ Disconnects' = 1
          /\ ws' = ws /\ ~alreadyConnecting(Cur')
          /\ \A a \in Attempts :
                sockets'[a] # NoSocket => sockets[a].readyState = sockets'[a].readyState
          /\ IF reconnectAttempts < maxReconnectAttempts
             THEN /\ reconnectAttempts' = reconnectAttempts + 1
                  /\ armed' = << backoff(reconnectAttempts') >>
                  /\ reconnectTimeoutId' # NULL /\ timers' = {reconnectTimeoutId'}
             ELSE /\ reconnectAttempts' = reconnectAttempts
                  /\ armed' = << >>
                  /\ reconnectTimeoutId' = NULL /\ timers' = {} ]_vars

\* The connect() of the reconnect timer failed at once and armed the next
\* timer.
C36_Witness ==
    /\ ConstructionFailed
    /\ step.op = "timer"
    /\ settlement(Cur, connectionPromise) = "rejected"
    /\ Len(armed) = 1
    /\ reconnectAttempts > 1

\* C37: the ceiling of 30000 ms is never the delay used: every reconnect
\* timer is armed with 3000 * 1.5^(n-1) ms, n the counter after the
\* increment, which is at most 15187.5 ms and below the ceiling.
C37_CeilingNeverUsed ==
    [][ \A k \in 1 .. Len(armed') :
          LET n == reconnectAttempts'
          IN  /\ same(armed'[k], [num |-> 3000 * pow(3, n - 1), den |-> pow(2, n - 1)])
              /\ leq(armed'[k], [num |-> 151875, den |-> 10])
              /\ ~leq([num |-> 30000, den |-> 1], armed'[k]) ]_vars

\* The last timer the ceiling of five attempts allows was armed, with
\* 3000 * 81 / 16 ms.
C37_Witness ==
    /\ armed = << [num |-> 243000, den |-> 16] >>
    /\ reconnectAttempts = maxReconnectAttempts

====
